---- MODULE Spec2Model ----
(***************************************************************************)
(* NIST CMVP "Modules In Process" tracker: the SQLite snapshot store that  *)
(* scrape_nist_mip.py fills and the analysis functions of                  *)
(* generate_report.py that read it.                                        *)
(*                                                                         *)
(* A Python str is a sequence of one-character strings, so that split,     *)
(* strip, the regular expression and the tuple ordering of sorted() are    *)
(* computed character by character.  A publish date "M/D/YYYY" is the      *)
(* triple <<M, D, YYYY>> of its three number fields; strptime turns it     *)
(* into a datetime record.  None is the empty tuple.                       *)
(***************************************************************************)
EXTENDS Integers, Sequences, FiniteSets, Bags, TLC

(***************************************************************************)
(* Bounds of the model.                                                    *)
(***************************************************************************)
NumDates == 3
MaxRows == 2
MaxDbRows == 3
RunDates == 4
MaxCallRows == 2
StoreDates == 2
MaxStoreRows == 3
MaxSecondaryRows == 2
MaxNd == 3
MaxTokens == 4
WaybackDates == 2
MaxBeforeRows == 2
MaxSnapshots == 3

None == <<>>

(***************************************************************************)
(* Strings.                                                                *)
(***************************************************************************)
\* The characters the model uses, in code point order; str comparison in
\* Python is by code point.
CodePoints ==
  << " ", "(", ")", "/", "0", "1", "2", "3", "4", "5", "6", "7", "8", "9",
     "A", "B", "C", "D", "E", "F", "G", "H", "I", "J", "K", "L", "M", "N",
     "O", "P", "Q", "R", "S", "T", "U", "V", "W", "X", "Y", "Z",
     "a", "b", "c", "d", "e", "f", "g", "h", "i", "j", "k", "l", "m", "n",
     "o", "p", "q", "r", "s", "t", "u", "v", "w", "x", "y", "z", "|" >>

Ord(c) == CHOOSE i \in 1..Len(CodePoints) : CodePoints[i] = c

Whitespace == {" ", "\t", "\n", "\r"}

Digits == {"0", "1", "2", "3", "4", "5", "6", "7", "8", "9"}

\* s < t for two str, as Python compares them.
RECURSIVE StrLess(_, _)
StrLess(s, t) ==
  IF t = <<>> THEN FALSE
  ELSE IF s = <<>> THEN TRUE
  ELSE IF Head(s) = Head(t) THEN StrLess(Tail(s), Tail(t))
  ELSE Ord(Head(s)) < Ord(Head(t))

\* str.strip(): leading and trailing whitespace removed.
RECURSIVE LStrip(_)
LStrip(s) ==
  IF s # <<>> /\ Head(s) \in Whitespace THEN LStrip(Tail(s)) ELSE s

RECURSIVE RStrip(_)
RStrip(s) ==
  IF s # <<>> /\ s[Len(s)] \in Whitespace
  THEN RStrip(SubSeq(s, 1, Len(s) - 1))
  ELSE s

Strip(s) == RStrip(LStrip(s))

\* str.split(sep)[0]: the text before the first occurrence of sep, the
\* whole string if there is none.
SplitFirst(s, sep) ==
  IF \E i \in 1..Len(s) : s[i] = sep
  THEN LET i == CHOOSE j \in 1..Len(s) :
                  s[j] = sep /\ \A h \in 1..(j - 1) : s[h] # sep
       IN SubSeq(s, 1, i - 1)
  ELSE s

\* A mutant of normalize_status: the text before the parenthesis is not
\* stripped.
normalize_status_no_strip(raw) == SplitFirst(raw, "(")

\* generate_report.py normalize_status
normalize_status(raw) == Strip(SplitFirst(raw, "("))

(***************************************************************************)
(* Dates.                                                                  *)
(***************************************************************************)
\* datetime.strptime(d, "%m/%d/%Y")
strptime(d) == [year |-> d[3], month |-> d[1], day |-> d[2]]

\* datetime.min
datetime_min == [year |-> 1, month |-> 1, day |-> 1]

\* a < b for two datetime values
DtLess(a, b) ==
  \/ a.year < b.year
  \/ a.year = b.year /\ a.month < b.month
  \/ a.year = b.year /\ a.month = b.month /\ a.day < b.day

\* sorted(seq, key=Key) and list.sort(key=Key): a stable sort.  The element
\* at position i goes behind every element with a smaller key and behind the
\* earlier elements with an equal key.
Sorted(seq, Key(_), Less(_, _)) ==
  LET n == Len(seq)
      rank(i) ==
        Cardinality({j \in 1..n : Less(Key(seq[j]), Key(seq[i]))})
        + Cardinality({j \in 1..(i - 1) :
                         /\ ~Less(Key(seq[j]), Key(seq[i]))
                         /\ ~Less(Key(seq[i]), Key(seq[j]))})
        + 1
  IN [p \in 1..n |-> seq[CHOOSE i \in 1..n : rank(i) = p]]

(***************************************************************************)
(* Rows and dicts.                                                         *)
(*                                                                         *)
(* A row of the modules table is the 5-tuple                               *)
(* <<publish_date, module_name, vendor_name, standard, status>>.  A dict   *)
(* is the sequence of its <<key, value>> items in insertion order:         *)
(* assigning to a key that is present replaces the value and keeps the     *)
(* item's place.                                                           *)
(***************************************************************************)
KeyOf(r) == <<r[2], r[3], r[4]>>

DictHas(d, k) == \E i \in 1..Len(d) : d[i][1] = k

DictGet(d, k) == d[CHOOSE i \in 1..Len(d) : d[i][1] = k][2]

DictSet(d, k, v) ==
  IF DictHas(d, k)
  THEN [i \in 1..Len(d) |-> IF d[i][1] = k THEN <<k, v>> ELSE d[i]]
  ELSE Append(d, <<k, v>>)

DictKeys(d) == {d[i][1] : i \in 1..Len(d)}

\* a < b for two tuples of str, as Python compares tuples: the first
\* position where they differ decides.
RECURSIVE TupleLess(_, _)
TupleLess(a, b) ==
  IF b = <<>> THEN FALSE
  ELSE IF a = <<>> THEN TRUE
  ELSE IF Head(a) = Head(b) THEN TupleLess(Tail(a), Tail(b))
  ELSE StrLess(Head(a), Head(b))

\* An item (key, status, ...) of added, removed or changed as the flat tuple
\* of its strings; comparing the flat tuples is comparing the nested ones.
Flat(item) == item[1] \o Tail(item)

(***************************************************************************)
(* generate_report.py compute_changes                                      *)
(***************************************************************************)
\* rows_for(date): {(r[1], r[2], r[3]): r[4].strip() for r in all_rows
\* if r[0] == date}, the rows taken in order.
RECURSIVE rows_for(_, _)
rows_for(all_rows, date) ==
  IF all_rows = <<>> THEN <<>>
  ELSE LET r == all_rows[Len(all_rows)]
           d == rows_for(SubSeq(all_rows, 1, Len(all_rows) - 1), date)
       IN IF r[1] = date THEN DictSet(d, KeyOf(r), Strip(r[5])) ELSE d

\* The items of a list as a set.
Items(d) == {d[i] : i \in 1..Len(d)}

\* A mutant of added_items: the keys of the previous snapshot that the
\* current one lacks.
added_items_from_old(old, new) ==
  LET keep(it) == ~DictHas(new, it[1])
  IN Sorted(SelectSeq(old, keep), Flat, TupleLess)

\* added = sorted([(k, new[k]) for k in new if k not in old])
added_items(old, new) ==
  LET keep(it) == ~DictHas(old, it[1])
  IN Sorted(SelectSeq(new, keep), Flat, TupleLess)

\* A mutant of removed_items: every key of the previous snapshot.
removed_items_all(old, new) ==
  Sorted(old, Flat, TupleLess)

\* removed = sorted([(k, old[k]) for k in old if k not in new])
removed_items(old, new) ==
  LET keep(it) == ~DictHas(new, it[1])
  IN Sorted(SelectSeq(old, keep), Flat, TupleLess)

\* (k, old[k], new[k]) for the items of new that pass
ChangedTriples(old, both) ==
  [i \in 1..Len(both) |-> <<both[i][1], DictGet(old, both[i][1]), both[i][2]>>]

\* A mutant of changed_items: the statuses as stored are compared, not the
\* normalized ones.
changed_items_raw(old, new) ==
  LET keep(it) == DictHas(old, it[1]) /\ it[2] # DictGet(old, it[1])
  IN Sorted(ChangedTriples(old, SelectSeq(new, keep)), Flat, TupleLess)

\* A mutant of changed_items: the entries carry the normalized statuses.
changed_items_normalized(old, new) ==
  LET keep(it) ==
        /\ DictHas(old, it[1])
        /\ normalize_status(it[2]) # normalize_status(DictGet(old, it[1]))
      both == SelectSeq(new, keep)
  IN Sorted([i \in 1..Len(both) |->
               <<both[i][1], normalize_status(DictGet(old, both[i][1])),
                 normalize_status(both[i][2])>>],
            Flat, TupleLess)

\* changed = sorted([(k, old[k], new[k]) for k in new if k in old and
\*                   normalize_status(new[k]) != normalize_status(old[k])])
changed_items(old, new) ==
  LET keep(it) ==
        /\ DictHas(old, it[1])
        /\ normalize_status(it[2]) # normalize_status(DictGet(old, it[1]))
  IN Sorted(ChangedTriples(old, SelectSeq(new, keep)), Flat, TupleLess)

\* A mutant of compute_changes: no early return; with fewer than two dates
\* the last date stands in for the missing one.
compute_changes_no_guard(dates, all_rows) ==
  LET new_date == IF dates # <<>> THEN dates[Len(dates)] ELSE None
      prev_date == IF Len(dates) >= 2 THEN dates[Len(dates) - 1] ELSE new_date
      old == rows_for(all_rows, prev_date)
      new == rows_for(all_rows, new_date)
  IN [prev_date |-> prev_date,
      new_date |-> new_date,
      added |-> added_items(old, new),
      removed |-> removed_items(old, new),
      changed |-> changed_items(old, new)]

\* compute_changes(dates, all_rows): (prev_date, new_date, added, removed,
\* changed) for the most recent date.
compute_changes(dates, all_rows) ==
  IF Len(dates) < 2
  THEN [prev_date |-> None,
        new_date |-> IF dates # <<>> THEN dates[Len(dates)] ELSE None,
        added |-> <<>>, removed |-> <<>>, changed |-> <<>>]
  ELSE
    LET new_date == dates[Len(dates)]
        prev_date == dates[Len(dates) - 1]
        old == rows_for(all_rows, prev_date)
        new == rows_for(all_rows, new_date)
    IN [prev_date |-> prev_date,
        new_date |-> new_date,
        added |-> added_items(old, new),
        removed |-> removed_items(old, new),
        changed |-> changed_items(old, new)]

(***************************************************************************)
(* generate_report.py compute_module_stats                                 *)
(***************************************************************************)
\* date_dt = {d: datetime.strptime(d, "%m/%d/%Y") for d in dates}
date_dt(dates) == [d \in Items(dates) |-> strptime(d)]

\* date_dt.get(d, datetime.min)
date_dt_get(dd, d) == IF d \in DOMAIN dd THEN dd[d] ELSE datetime_min

\* The exceptions a call can raise; NoError when it returns.
NoError == "no error"
KeyError == "KeyError"
IndexError == "IndexError"
TypeError == "TypeError"

\* A mutant of history_of: the rows are not grouped by key, every key gets
\* the entries of all the rows.
history_of_all_keys(all_rows) ==
  LET first == {i \in 1..Len(all_rows) :
                  \A h \in 1..(i - 1) : KeyOf(all_rows[h]) # KeyOf(all_rows[i])}
      isFirst(r) == \E i \in first : all_rows[i] = r
      heads == SelectSeq(all_rows, isFirst)
      every == [i \in 1..Len(all_rows) |->
                  <<all_rows[i][1], normalize_status(all_rows[i][5])>>]
  IN [i \in 1..Len(heads) |-> <<KeyOf(heads[i]), every>>]

\* A mutant of history_of: absence is recorded, every key gets an entry for
\* every row, without a status where the row is of another key.
history_of_absence_recorded(all_rows) ==
  LET first == {i \in 1..Len(all_rows) :
                  \A h \in 1..(i - 1) : KeyOf(all_rows[h]) # KeyOf(all_rows[i])}
      isFirst(r) == \E i \in first : all_rows[i] = r
      heads == SelectSeq(all_rows, isFirst)
      every(k) == [i \in 1..Len(all_rows) |->
                     <<all_rows[i][1],
                       IF KeyOf(all_rows[i]) = k
                       THEN normalize_status(all_rows[i][5]) ELSE None>>]
  IN [i \in 1..Len(heads) |-> <<KeyOf(heads[i]), every(KeyOf(heads[i]))>>]

\* history.setdefault(key, []).append((pub_date, normalize_status(status)))
\* for every row, in order.
RECURSIVE history_of(_)
history_of(all_rows) ==
  IF all_rows = <<>> THEN <<>>
  ELSE LET r == all_rows[Len(all_rows)]
           h == history_of(SubSeq(all_rows, 1, Len(all_rows) - 1))
           before == IF DictHas(h, KeyOf(r)) THEN DictGet(h, KeyOf(r)) ELSE <<>>
       IN DictSet(h, KeyOf(r), Append(before, <<r[1], normalize_status(r[5])>>))

EntryDate(x) == x[1]

\* history[key].sort(key=lambda x: date_dt.get(x[0], datetime.min))
sort_history(entries, dd) ==
  LET key(x) == date_dt_get(dd, EntryDate(x))
  IN Sorted(entries, key, DtLess)

\* for pub_date, norm_status in reversed(entries[:-1]): the entry at i and
\* the ones before it are still to be visited.
RECURSIVE run_walk(_, _, _, _)
run_walk(entries, i, current_status, run_start) ==
  IF i = 0 THEN run_start
  ELSE IF entries[i][2] = current_status
       THEN run_walk(entries, i - 1, current_status, entries[i][1])
       ELSE run_start

\* A mutant of run_start_of: the walk does not stop at the first entry of
\* another status, so the earliest entry of the current status is returned.
run_start_of_no_break(entries) ==
  LET same == {i \in 1..Len(entries) : entries[i][2] = entries[Len(entries)][2]}
  IN entries[CHOOSE i \in same : \A j \in same : i <= j][1]

\* current_status = entries[-1][1]; run_start = entries[-1][0]; the loop
run_start_of(entries) ==
  run_walk(entries, Len(entries) - 1, entries[Len(entries)][2],
           entries[Len(entries)][1])

\* compute_module_stats(all_rows, dates): status_since as a dict from key to
\* datetime; date_dt[run_start] raises KeyError for a date not in dates.
compute_module_stats(all_rows, dates) ==
  LET dd == date_dt(dates)
      history == history_of(all_rows)
      sorted == [i \in 1..Len(history) |->
                   <<history[i][1], sort_history(history[i][2], dd)>>]
      starts == [i \in 1..Len(sorted) |->
                   <<sorted[i][1], run_start_of(sorted[i][2])>>]
  IN IF \E i \in 1..Len(starts) : starts[i][2] \notin DOMAIN dd
     THEN [raised |-> KeyError, status_since |-> <<>>]
     ELSE [raised |-> NoError,
           status_since |-> [i \in 1..Len(starts) |->
                               <<starts[i][1], dd[starts[i][2]]>>]]

(***************************************************************************)
(* generate_report.py build_module_histories                               *)
(***************************************************************************)
IsDigits(s, from, n) ==
  /\ from + n - 1 <= Len(s)
  /\ \A i \in from..(from + n - 1) : s[i] \in Digits

\* The pattern \((\d{1,2}/\d{1,2}/\d{4})\) matches at position i with a
\* digits in the first field and b digits in the second.
MatchesAt(s, i, a, b) ==
  /\ i + a + b + 7 <= Len(s)
  /\ s[i] = "("
  /\ IsDigits(s, i + 1, a)
  /\ s[i + a + 1] = "/"
  /\ IsDigits(s, i + a + 2, b)
  /\ s[i + a + b + 2] = "/"
  /\ IsDigits(s, i + a + b + 3, 4)
  /\ s[i + a + b + 7] = ")"

\* A mutant of status_date_of: the pattern lacks the two parentheses, so the
\* leftmost date anywhere in the string is taken.
status_date_of_unanchored(status) ==
  LET plain(i, a, b) ==
        /\ i + a + b + 5 <= Len(status)
        /\ IsDigits(status, i, a)
        /\ status[i + a] = "/"
        /\ IsDigits(status, i + a + 1, b)
        /\ status[i + a + b + 1] = "/"
        /\ IsDigits(status, i + a + b + 2, 4)
      hits == {i \in 1..Len(status) : \E a \in 1..2, b \in 1..2 : plain(i, a, b)}
  IN IF hits = {} THEN None
     ELSE LET i == CHOOSE h \in hits : \A g \in hits : h <= g
              a == IF \E b \in 1..2 : plain(i, 2, b) THEN 2 ELSE 1
              b == IF plain(i, a, 2) THEN 2 ELSE 1
          IN SubSeq(status, i, i + a + b + 5)

\* m = status_date_re.search(status); m.group(1) if m else None: the
\* leftmost match.
status_date_of(status) ==
  LET hits == {i \in 1..Len(status) :
                 \E a \in 1..2, b \in 1..2 : MatchesAt(status, i, a, b)}
  IN IF hits = {} THEN None
     ELSE LET i == CHOOSE h \in hits : \A g \in hits : h <= g
              ab == CHOOSE p \in (1..2) \X (1..2) : MatchesAt(status, i, p[1], p[2])
          IN SubSeq(status, i + 1, i + ab[1] + ab[2] + 6)

\* k_str = f"{mn}||{vn}||{std}"
key_str(k) == k[1] \o <<"|", "|">> \o k[2] \o <<"|", "|">> \o k[3]

\* raw.setdefault(k_str, []).append((pub_date, normalize_status(status),
\* status_date)) for every row whose key is requested, in order.
RECURSIVE raw_histories(_, _)
raw_histories(all_rows, key_set) ==
  IF all_rows = <<>> THEN <<>>
  ELSE LET r == all_rows[Len(all_rows)]
           h == raw_histories(SubSeq(all_rows, 1, Len(all_rows) - 1), key_set)
           k == key_str(KeyOf(r))
           before == IF DictHas(h, k) THEN DictGet(h, k) ELSE <<>>
       IN IF KeyOf(r) \in key_set
          THEN DictSet(h, k, Append(before,
                 <<r[1], normalize_status(r[5]), status_date_of(r[5])>>))
          ELSE h

\* build_module_histories(all_rows, dates, keys): {key_str: [{date, status,
\* status_date}, ...]}, each list sorted by date.
build_module_histories(all_rows, dates, keys) ==
  LET dd == date_dt(dates)
      raw == raw_histories(all_rows, keys)
      key(x) == date_dt_get(dd, EntryDate(x))
      entry(x) == [date |-> x[1], status |-> x[2], status_date |-> x[3]]
  IN [i \in 1..Len(raw) |->
        <<raw[i][1],
          LET v == Sorted(raw[i][2], key, DtLess)
          IN [n \in 1..Len(v) |-> entry(v[n])]>>]

(***************************************************************************)
(* generate_report.py disappearances_html                                  *)
(***************************************************************************)
terminal == {<<"F", "i", "n", "a", "l", "i", "z", "a", "t", "i", "o", "n">>}

\* date_dt[pub_date] > date_dt[last_status[key][0]]
later_than(dd, pub_date, last_date) == DtLess(dd[last_date], dd[pub_date])

\* The loop over all_rows that fills last_status, key -> (last_publish_date,
\* normalized_status).  A row of a key that is already present looks both
\* dates up in date_dt, which raises KeyError for a date not in dates.
RECURSIVE last_status_of(_, _)
last_status_of(all_rows, dd) ==
  IF all_rows = <<>> THEN [raised |-> NoError, dict |-> <<>>]
  ELSE LET r == all_rows[Len(all_rows)]
           acc == last_status_of(SubSeq(all_rows, 1, Len(all_rows) - 1), dd)
           key == KeyOf(r)
           entry == <<r[1], normalize_status(r[5])>>
       IN IF acc.raised # NoError THEN acc
          ELSE IF ~DictHas(acc.dict, key)
               THEN [acc EXCEPT !.dict = DictSet(acc.dict, key, entry)]
          ELSE IF r[1] \notin DOMAIN dd
                  \/ DictGet(acc.dict, key)[1] \notin DOMAIN dd
               THEN [raised |-> KeyError, dict |-> <<>>]
          ELSE IF later_than(dd, r[1], DictGet(acc.dict, key)[1])
               THEN [acc EXCEPT !.dict = DictSet(acc.dict, key, entry)]
               ELSE acc

\* A mutant of is_disappeared: the terminal status is not looked at.
is_disappeared_any_status(last_date, last_norm, most_recent) ==
  last_date # most_recent

\* if last_date != most_recent and last_norm not in terminal
is_disappeared(last_date, last_norm, most_recent) ==
  last_date # most_recent /\ last_norm \notin terminal

\* disappearances_html(all_rows, dates): the rows of the table, (key,
\* last_date, last_norm), most recent disappearance first, and their count.
disappearances_html(all_rows, dates) ==
  LET dd == date_dt(dates)
      sorted_dates == Sorted(dates, strptime, DtLess)
      last_status == last_status_of(all_rows, dd)
      failed(e) == [raised |-> e, rows |-> <<>>, count |-> 0]
  IN IF last_status.raised # NoError THEN failed(last_status.raised)
     ELSE IF sorted_dates = <<>> THEN failed(IndexError)
     ELSE
       LET most_recent == sorted_dates[Len(sorted_dates)]
           d == last_status.dict
           keep(it) == is_disappeared(it[2][1], it[2][2], most_recent)
           hit == SelectSeq(d, keep)
           disappeared == [i \in 1..Len(hit) |->
                             <<hit[i][1], hit[i][2][1], hit[i][2][2]>>]
           key(x) == dd[x[2]]
           After(a, b) == DtLess(b, a)
       IN IF \E i \in 1..Len(disappeared) : disappeared[i][2] \notin DOMAIN dd
          THEN failed(KeyError)
          ELSE [raised |-> NoError,
                rows |-> Sorted(disappeared, key, After),
                count |-> Len(disappeared)]

(***************************************************************************)
(* generate_report.py: showHistory, the script of the report page          *)
(***************************************************************************)
\* The loop of showHistory: consecutive entries of one status make one run.
\* The start of a run is h.status_date || h.date of its first entry, the end
\* the date of its last entry.
RECURSIVE collapse_runs(_)
collapse_runs(history) ==
  IF history = <<>> THEN <<>>
  ELSE LET h == history[Len(history)]
           runs == collapse_runs(SubSeq(history, 1, Len(history) - 1))
       IN IF Len(runs) > 0 /\ runs[Len(runs)].status = h.status
          THEN [runs EXCEPT ![Len(runs)].end = h.date]
          ELSE Append(runs,
                      [start |-> IF h.status_date # None THEN h.status_date
                                 ELSE h.date,
                       end |-> h.date,
                       status |-> h.status])

\* A mutant of dedupedRuns: the first run of every status is kept.
dedupedRuns_first(runs) ==
  LET first(i) == \A j \in 1..(i - 1) : runs[j].status # runs[i].status
      kept == {i \in 1..Len(runs) : first(i)}
      nth(n) == CHOOSE i \in kept : Cardinality({j \in kept : j < i}) = n - 1
  IN [n \in 1..Cardinality(kept) |-> runs[nth(n)]]

\* latest[r.status] = r for every run in turn, then the runs that are the
\* latest of their status, in their order.
dedupedRuns(runs) ==
  LET latest(i) == \A j \in (i + 1)..Len(runs) : runs[j].status # runs[i].status
      kept == {i \in 1..Len(runs) : latest(i)}
      nth(n) == CHOOSE i \in kept : Cardinality({j \in kept : j < i}) = n - 1
  IN [n \in 1..Cardinality(kept) |-> runs[nth(n)]]

\* showHistory(key): the rows of the history table of the module.
showHistory(table, key) ==
  [key |-> key, runs |-> dedupedRuns(collapse_runs(DictGet(table, key)))]

(***************************************************************************)
(* The inputs of the model.                                                *)
(***************************************************************************)
\* The i-th publish date: 12/1/2023, 1/1/2024, 2/1/2024, 3/1/2024, ...
PoolDate(i) == <<((i + 10) % 12) + 1, 1, 2023 + ((i + 10) \div 12)>>

\* 1/1/2024, 2/1/2024, 3/1/2024
DatePool == {PoolDate(i) : i \in 2..(NumDates + 1)}

\* 12/1/2023, 1/1/2024, 2/1/2024, 3/1/2024
RunDatePool == {PoolDate(i) : i \in 1..RunDates}

KeyX == << <<"X">>, <<"V">>, <<"3">> >>
KeyY == << <<"Y">>, <<"V">>, <<"3">> >>

KeyPool == {KeyX, KeyY}

ReviewPending1 ==
  << "R", "e", "v", "i", "e", "w", " ", "P", "e", "n", "d", "i", "n", "g",
     " ", "(", "1", "/", "1", "/", "2", "0", "2", "4", ")" >>

\* The same status with another date annotation and two spaces before it.
ReviewPending2 ==
  << "R", "e", "v", "i", "e", "w", " ", "P", "e", "n", "d", "i", "n", "g",
     " ", " ", "(", "2", "/", "1", "/", "2", "0", "2", "4", ")" >>

Coordination3 ==
  << "C", "o", "o", "r", "d", "i", "n", "a", "t", "i", "o", "n",
     " ", "(", "3", "/", "1", "/", "2", "0", "2", "4", ")" >>

Finalization == << "F", "i", "n", "a", "l", "i", "z", "a", "t", "i", "o", "n" >>

\* The status cells a page can carry.  parse_page strips every cell, so no
\* status starts or ends with whitespace.
StatusPool == {ReviewPending1, ReviewPending2, Finalization}

RunStatusPool == {ReviewPending1, Coordination3}

\* The table rows of a page: the four cells of a module.
PageRow(k, st) == <<k[1], k[2], k[3], st>>

RowPool == {PageRow(k, st) : k \in KeyPool, st \in StatusPool}

RunRowPool == {PageRow(KeyX, st) : st \in RunStatusPool}

\* The lists of one to n rows of a pool.
RowLists(pool, n) == UNION {[1..m -> pool] : m \in 1..n}

NdPool == {0}

(***************************************************************************)
(* State.                                                                  *)
(***************************************************************************)
VARIABLES
  modules,        \* table modules: its rows in rowid order
  not_displayed,  \* table not_displayed: the bag of its rows
  pc,             \* where the report process is, "idle" when none runs
  dates,          \* load_data's dates
  all_rows,       \* load_data's all_rows
  changes,        \* what compute_changes returned
  stats,          \* what compute_module_stats returned
  histories,      \* what build_module_histories returned
  disappeared,    \* what disappearances_html returned
  printed,        \* what the last print_changes of the scraper found
  shown,          \* the status runs showHistory put in the open modal
  secondary,      \* table modules of the secondary database of merge_db
  secondary_nd,   \* table not_displayed of the secondary database
  raw,            \* a raw status string handed to a function
  result          \* what the last call of a function or of merge_db returned

vars == <<modules, not_displayed, pc, dates, all_rows, changes, stats,
          histories, disappeared, printed, shown, secondary, secondary_nd,
          raw, result>>

store == <<modules, not_displayed>>

report == <<dates, all_rows, changes, stats, histories, disappeared>>

second == <<secondary, secondary_nd>>

call == <<raw, result>>

Init ==
  /\ modules = <<>>
  /\ not_displayed = EmptyBag
  /\ pc = "idle"
  /\ dates = None
  /\ all_rows = None
  /\ changes = None
  /\ stats = None
  /\ histories = None
  /\ disappeared = None
  /\ printed = None
  /\ shown = None
  /\ secondary = <<>>
  /\ secondary_nd = EmptyBag
  /\ raw = None
  /\ result = None

(***************************************************************************)
(* scrape_nist_mip.py                                                      *)
(***************************************************************************)
\* SELECT DISTINCT publish_date FROM modules, in order of first appearance
RECURSIVE distinct_dates(_)
distinct_dates(table) ==
  IF table = <<>> THEN <<>>
  ELSE LET before == distinct_dates(SubSeq(table, 1, Len(table) - 1))
           d == table[Len(table)][1]
       IN IF d \in Items(before) THEN before ELSE Append(before, d)

\* A mutant of delete_date: DELETE FROM modules, without the WHERE.
delete_date_all(table, publish_date) == <<>>

\* DELETE FROM modules WHERE publish_date = ?  With None for the parameter
\* the comparison is with NULL, which no row passes.
delete_date(table, publish_date) ==
  LET keep(r) == publish_date = None \/ r[1] # publish_date
  IN SelectSeq(table, keep)

\* INSERT INTO modules for every row with at least 4 cells, in order
inserted_rows(publish_date, rows) ==
  LET enough(row) == Len(row) >= 4
      long == SelectSeq(rows, enough)
  IN [i \in 1..Len(long) |->
        <<publish_date, long[i][1], long[i][2], long[i][3], long[i][4]>>]

\* save_to_db(publish_date, rows, not_displayed): what the two tables hold
\* after the commit.
save_to_db_modules(table, publish_date, rows) ==
  delete_date(table, publish_date) \o inserted_rows(publish_date, rows)

\* INSERT OR REPLACE INTO not_displayed (publish_date, count); publish_date
\* is the table's primary key, a TEXT one, so that NULL is never a conflict.
\* A row of the table is <<publish_date, count>>.
save_to_db_not_displayed(table, publish_date, count) ==
  LET stay == {r \in BagToSet(table) :
                 publish_date = None \/ r[1] # publish_date}
  IN [r \in stay |-> table[r]] (+) SetToBag({<<publish_date, count>>})

\* A mutant of fetch_rows: the first row of a key on the date gives the
\* status, not the last one.
RECURSIVE fetch_rows_first_row(_, _)
fetch_rows_first_row(table, date) ==
  IF table = <<>> THEN <<>>
  ELSE LET r == table[Len(table)]
           d == fetch_rows_first_row(SubSeq(table, 1, Len(table) - 1), date)
       IN IF date # None /\ r[1] = date /\ ~DictHas(d, KeyOf(r))
          THEN DictSet(d, KeyOf(r), r[5]) ELSE d

\* fetch_rows(date) of print_changes: {(r[0], r[1], r[2]): r[3]} of the rows
\* of the date, in order.
RECURSIVE fetch_rows(_, _)
fetch_rows(table, date) ==
  IF table = <<>> THEN <<>>
  ELSE LET r == table[Len(table)]
           d == fetch_rows(SubSeq(table, 1, Len(table) - 1), date)
       IN IF date # None /\ r[1] = date THEN DictSet(d, KeyOf(r), r[5]) ELSE d

Same(x) == x

\* The keys of a dict in insertion order.
KeyList(d) == [i \in 1..Len(d) |-> d[i][1]]

\* print_changes(publish_date): what it prints.  compared is FALSE when it
\* returns before comparing (the date is not in the table, or is the
\* earliest one); strptime raises TypeError for a NULL publish_date in the
\* table.
print_changes(table, publish_date) ==
  LET all_dates == distinct_dates(table)
      nothing(e) == [raised |-> e, compared |-> FALSE, publish_date |-> publish_date,
                     prev_date |-> None, added |-> <<>>, removed |-> <<>>,
                     changed |-> <<>>]
  IN IF None \in Items(all_dates) THEN nothing(TypeError)
     ELSE LET parsed == Sorted(all_dates, strptime, DtLess)
          IN IF publish_date \notin Items(parsed) THEN nothing(NoError)
             ELSE LET idx == CHOOSE i \in 1..Len(parsed) : parsed[i] = publish_date
                  IN IF idx = 1 THEN nothing(NoError)
                     ELSE
                       LET prev_date == parsed[idx - 1]
                           old == fetch_rows(table, prev_date)
                           new == fetch_rows(table, publish_date)
                           isAdded(k) == ~DictHas(old, k)
                           isRemoved(k) == ~DictHas(new, k)
                           isChanged(k) ==
                             /\ DictHas(old, k)
                             /\ Strip(SplitFirst(DictGet(new, k), "("))
                                  # Strip(SplitFirst(DictGet(old, k), "("))
                       IN [raised |-> NoError, compared |-> TRUE,
                           publish_date |-> publish_date,
                           prev_date |-> prev_date,
                           added |-> Sorted(SelectSeq(KeyList(new), isAdded),
                                            Same, TupleLess),
                           removed |-> Sorted(SelectSeq(KeyList(old), isRemoved),
                                              Same, TupleLess),
                           changed |-> Sorted(SelectSeq(KeyList(new), isChanged),
                                              Same, TupleLess)]

\* scrape_modules_in_process: the live page carries publish_date, count and
\* rows; a page without rows ends the run before anything is saved.
scrape_modules_in_process(publish_date, count, rows) ==
  /\ pc = "idle"
  /\ rows # <<>>
  /\ modules' = save_to_db_modules(modules, publish_date, rows)
  /\ not_displayed' = save_to_db_not_displayed(not_displayed, publish_date, count)
  /\ printed' = print_changes(modules', publish_date)
  /\ UNCHANGED <<pc, report, shown, second, call>>

(***************************************************************************)
(* generate_report.py: one run of main                                     *)
(***************************************************************************)
\* load_data: dates sorted chronologically and the full rows
load_data_dates(table) == Sorted(distinct_dates(table), strptime, DtLess)

load_data_rows(table) == table

\* history_keys of generate_html
history_keys(ch, rows) ==
  {ch.added[i][1] : i \in 1..Len(ch.added)}
  \cup {ch.removed[i][1] : i \in 1..Len(ch.removed)}
  \cup {ch.changed[i][1] : i \in 1..Len(ch.changed)}
  \cup {KeyOf(r) : r \in {q \in Items(rows) :
                            /\ q[1] = ch.new_date
                            /\ normalize_status(q[5]) = Finalization}}

\* main: load_data, then generate_html.  Without --all main reads dates[-1]
\* first, which raises IndexError on an empty table ("failed_main");
\* finalization_html parses new_date, which raises TypeError when there is
\* none ("failed_html": compute_changes and compute_module_stats have
\* returned by then).  The chart and the tables made of these results are
\* text and are left out.
GenerateReport(all_dates) ==
  /\ pc = "idle"
  /\ dates' = load_data_dates(modules)
  /\ all_rows' = load_data_rows(modules)
  /\ IF ~all_dates /\ dates' = <<>>
     THEN /\ pc' = "failed_main"
          /\ UNCHANGED <<changes, stats, histories>>
     ELSE /\ changes' = compute_changes(dates', all_rows')
          /\ stats' = compute_module_stats(all_rows', dates')
          /\ IF changes'.new_date = None
             THEN /\ pc' = "failed_html"
                  /\ UNCHANGED histories
             ELSE /\ pc' = "report"
                  /\ histories' = build_module_histories(all_rows', dates',
                                     history_keys(changes', all_rows'))
  /\ UNCHANGED <<store, disappeared, printed, shown, second, call>>

\* A call of disappearances_html on the loaded data; generate_html itself
\* does not call it.
Disappearances ==
  /\ pc = "report"
  /\ pc' = "disappearances"
  /\ disappeared' = disappearances_html(all_rows, dates)
  /\ UNCHANGED <<store, dates, all_rows, changes, stats, histories, printed,
                 shown, second, call>>

\* A click on a module name of the report: showHistory(td.dataset.key).  A
\* key without a history returns at once.
ShowHistory ==
  /\ pc = "report"
  /\ \E i \in 1..Len(histories) :
       shown' = showHistory(histories, histories[i][1])
  /\ UNCHANGED <<store, pc, report, printed, second, call>>

\* The process ends; what it held is gone.
Exit ==
  /\ pc \in {"report", "disappearances", "failed_main", "failed_html"}
  /\ pc' = "idle"
  /\ dates' = None
  /\ all_rows' = None
  /\ changes' = None
  /\ stats' = None
  /\ histories' = None
  /\ disappeared' = None
  /\ shown' = None
  /\ UNCHANGED <<store, printed, second, call>>

Scrape ==
  \E publish_date \in DatePool, count \in NdPool,
     rows \in RowLists(RowPool, MaxRows) :
    /\ Len(save_to_db_modules(modules, publish_date, rows)) <= MaxDbRows
    /\ scrape_modules_in_process(publish_date, count, rows)

\* The pages of a single module, one row each.
ScrapeOne ==
  \E publish_date \in RunDatePool, count \in NdPool,
     rows \in RowLists(RunRowPool, 1) :
    /\ Len(save_to_db_modules(modules, publish_date, rows)) <= RunDates
    /\ scrape_modules_in_process(publish_date, count, rows)

Report == \E all_dates \in BOOLEAN : GenerateReport(all_dates)

Next == Scrape \/ Report \/ Disappearances \/ Exit

Spec == Init /\ [][Next]_vars

NextRun == ScrapeOne \/ Report \/ Disappearances \/ ShowHistory \/ Exit

SpecRun == Init /\ [][NextRun]_vars

(***************************************************************************)
(* generate_report.py: the four analysis functions called on arguments     *)
(* that need not come from one load_data.  load_data reads the dates and   *)
(* the rows in two statements, and a save_to_db committed between the two  *)
(* puts rows into all_rows whose date is not in dates.  Here pc is the set *)
(* of the functions that have been called.                                 *)
(***************************************************************************)
\* The ascending lists of distinct dates of the pool.
CallDateLists ==
  {Sorted(ds, strptime, DtLess) :
     ds \in {l \in UNION {[1..m -> DatePool] : m \in 0..NumDates} :
              \A i, j \in 1..Len(l) : i < j => DtLess(strptime(l[i]), strptime(l[j]))}}

CallStatusPool == {ReviewPending1, Finalization}

CallRowPool ==
  {<<d, k[1], k[2], k[3], st>> : d \in DatePool, k \in KeyPool, st \in CallStatusPool}

CallRowLists == UNION {[1..m -> CallRowPool] : m \in 1..MaxCallRows}

CallInit ==
  /\ modules = <<>>
  /\ not_displayed = EmptyBag
  /\ pc = {}
  /\ dates \in CallDateLists
  /\ all_rows \in CallRowLists
  /\ changes = None
  /\ stats = None
  /\ histories = None
  /\ disappeared = None
  /\ printed = None
  /\ shown = None
  /\ secondary = <<>>
  /\ secondary_nd = EmptyBag
  /\ raw = None
  /\ result = None

CallChanges ==
  /\ pc' = pc \cup {"compute_changes"}
  /\ changes' = compute_changes(dates, all_rows)
  /\ UNCHANGED <<store, dates, all_rows, stats, histories, disappeared,
                 printed, shown, second, call>>

CallStats ==
  /\ pc' = pc \cup {"compute_module_stats"}
  /\ stats' = compute_module_stats(all_rows, dates)
  /\ UNCHANGED <<store, dates, all_rows, changes, histories, disappeared,
                 printed, shown, second, call>>

CallHistories ==
  /\ pc' = pc \cup {"build_module_histories"}
  /\ \E keys \in SUBSET KeyPool :
       histories' = build_module_histories(all_rows, dates, keys)
  /\ UNCHANGED <<store, dates, all_rows, changes, stats, disappeared,
                 printed, shown, second, call>>

CallDisappearances ==
  /\ pc' = pc \cup {"disappearances_html"}
  /\ disappeared' = disappearances_html(all_rows, dates)
  /\ UNCHANGED <<store, dates, all_rows, changes, stats, histories,
                 printed, shown, second, call>>

NextCall == CallChanges \/ CallStats \/ CallHistories \/ CallDisappearances

SpecCall == CallInit /\ [][NextCall]_vars

(***************************************************************************)
(* generate_report.py: normalize_status and the status_date of             *)
(* build_module_histories on raw status strings put together from a few    *)
(* pieces.                                                                 *)
(***************************************************************************)
TokenPool ==
  { <<"A">>, <<" ">>, <<"(">>, <<")">>,
    <<"1", "/", "1", "/", "2", "0", "2", "4">>,
    <<"(", "2", "/", "1", "3", "/", "2", "0", "2", "4", ")">> }

RECURSIVE Join(_)
Join(pieces) ==
  IF pieces = <<>> THEN <<>> ELSE Head(pieces) \o Join(Tail(pieces))

RawPool == {Join(ts) : ts \in UNION {[1..m -> TokenPool] : m \in 0..MaxTokens}}

StatusInit ==
  /\ modules = <<>>
  /\ not_displayed = EmptyBag
  /\ pc = "idle"
  /\ dates = None
  /\ all_rows = None
  /\ changes = None
  /\ stats = None
  /\ histories = None
  /\ disappeared = None
  /\ printed = None
  /\ shown = None
  /\ secondary = <<>>
  /\ secondary_nd = EmptyBag
  /\ raw \in RawPool
  /\ result = None

\* normalize_status(raw)
Normalize ==
  /\ pc = "idle"
  /\ pc' = "normalized"
  /\ result' = normalize_status(raw)
  /\ UNCHANGED <<store, report, printed, shown, second, raw>>

\* normalize_status of what normalize_status returned
NormalizeAgain ==
  /\ pc = "normalized"
  /\ pc' = "normalized twice"
  /\ result' = normalize_status(result)
  /\ UNCHANGED <<store, report, printed, shown, second, raw>>

\* build_module_histories on the single row of the key X with the status
\* raw: the status_date of the one entry of the history.
StatusDate ==
  /\ pc = "idle"
  /\ pc' = "status_date"
  /\ LET d == PoolDate(2)
         h == build_module_histories(
                << <<d, KeyX[1], KeyX[2], KeyX[3], raw>> >>, <<d>>, {KeyX})
     IN result' = h[1][2][1].status_date
  /\ UNCHANGED <<store, report, printed, shown, second, raw>>

NextStatus == Normalize \/ NormalizeAgain \/ StatusDate

SpecStatus == StatusInit /\ [][NextStatus]_vars

(***************************************************************************)
(* merge_db.py, and the snapshot store under every page the scraper can    *)
(* meet.  parse_page returns None for the publish date of a page without   *)
(* a "Last Updated:" date, and rows of any number of cells.  The secondary *)
(* database is one the same scraper filled elsewhere.  A database file     *)
(* that save_to_db never wrote has no tables; save_to_db leaves a row in   *)
(* not_displayed on every call, so a database has its tables exactly when  *)
(* its not_displayed is not empty.                                         *)
(***************************************************************************)
\* get_dates(cur)
get_dates(mods, nd) ==
  Items(distinct_dates(mods)) \cup {r[1] : r \in BagToSet(nd)}

\* SELECT module_name, vendor_name, standard, status FROM modules WHERE
\* publish_date = ?, made into the rows that executemany inserts.
module_rows(mods, date) ==
  LET at(r) == date # None /\ r[1] = date
  IN SelectSeq(mods, at)

OperationalError == "OperationalError"

\* main of merge_db.py: the exception it ends with (NoError when it
\* returns), the dates it found missing, and the primary's modules table
\* after it.  get_dates needs both tables in both files.  sorted() cannot
\* compare None with a str.  For the first missing date the module rows are
\* inserted, and the SELECT of count, total_count then fails, since
\* not_displayed has no column total_count; the process ends before
\* primary.commit(), so the inserted rows are rolled back and the table is
\* what it was.
merge_db_main(p_mods, p_nd, s_mods, s_nd) ==
  IF p_nd = EmptyBag \/ s_nd = EmptyBag
  THEN [raised |-> OperationalError, missing |-> {}, modules |-> p_mods]
  ELSE
    LET missing == get_dates(s_mods, s_nd) \ get_dates(p_mods, p_nd)
    IN IF missing = {}
       THEN [raised |-> NoError, missing |-> {}, modules |-> p_mods]
       ELSE IF None \in missing /\ Cardinality(missing) >= 2
       THEN [raised |-> TypeError, missing |-> missing, modules |-> p_mods]
       ELSE
         [raised |-> OperationalError, missing |-> missing, modules |-> p_mods]

\* One run of merge_db.py on the two databases.
merge_db ==
  /\ pc = "idle"
  /\ LET m == merge_db_main(modules, not_displayed, secondary, secondary_nd)
     IN /\ modules' = m.modules
        /\ pc' = IF m.raised = NoError THEN "merged" ELSE "merge_failed"
        /\ result' = m
  /\ UNCHANGED <<not_displayed, report, printed, shown, second, raw>>

MergeExit ==
  /\ pc \in {"merged", "merge_failed"}
  /\ pc' = "idle"
  /\ result' = None
  /\ UNCHANGED <<store, report, printed, shown, second, raw>>

\* The scraper run on the secondary database.
scrape_secondary(publish_date, count, rows) ==
  /\ pc = "idle"
  /\ rows # <<>>
  /\ secondary' = save_to_db_modules(secondary, publish_date, rows)
  /\ secondary_nd' = save_to_db_not_displayed(secondary_nd, publish_date, count)
  /\ UNCHANGED <<store, pc, report, printed, shown, call>>

\* The publish date a page carries, None when it has none.
StoreDatePool == {PoolDate(i) : i \in 2..(StoreDates + 1)} \cup {None}

\* A row of four cells, one of three, one of five.
Row4 == PageRow(KeyX, ReviewPending1)
Row3 == KeyX
Row5 == PageRow(KeyY, Finalization) \o << <<"e">> >>

\* The row lists of the pages.
StorePagePool == { <<Row4>>, <<Row5>>, <<Row3, Row5>>, <<Row4, Row5>> }

StoreNdPool == {0, 2}

ScrapeStore ==
  \E publish_date \in StoreDatePool, count \in StoreNdPool,
     rows \in StorePagePool :
    /\ Len(save_to_db_modules(modules, publish_date, rows)) <= MaxStoreRows
    /\ BagCardinality(save_to_db_not_displayed(not_displayed, publish_date, count))
         <= MaxNd
    /\ scrape_modules_in_process(publish_date, count, rows)

ScrapeSecondary ==
  \E publish_date \in StoreDatePool, count \in {0}, rows \in {<<Row4>>} :
    /\ Len(save_to_db_modules(secondary, publish_date, rows)) <= MaxSecondaryRows
    /\ BagCardinality(save_to_db_not_displayed(secondary_nd, publish_date, count))
         <= MaxSecondaryRows
    /\ scrape_secondary(publish_date, count, rows)

NextStore == ScrapeStore \/ ScrapeSecondary \/ merge_db \/ MergeExit

SpecStore == Init /\ [][NextStore]_vars

(***************************************************************************)
(* scrape_nist_mip.py: one run of scrape_from_wayback.  raw holds the      *)
(* responses of the archive fetched so far, result the locals of the run:  *)
(* n (the number of snapshots), existing_dates, seen_publish_dates,        *)
(* new_count and saved, the save_to_db calls made so far, each with its    *)
(* publish date and the number of its snapshot.                            *)
(***************************************************************************)
\* get_existing_publish_dates: SELECT DISTINCT publish_date FROM modules
get_existing_publish_dates(table) == Items(distinct_dates(table))

\* A mutant of already_seen: no publish date counts as seen.
already_seen_never(publish_date, seen_publish_dates) == FALSE

\* if publish_date in seen_publish_dates
already_seen(publish_date, seen_publish_dates) ==
  publish_date \in seen_publish_dates

\* requests.RequestException of the fetch of a snapshot
RequestException == "RequestException"

\* The response of the archive for a snapshot: the fetch raises, or gives a
\* page of which parse_page returns publish_date, not_displayed and rows.
Failed == [raised |-> RequestException, publish_date |-> None,
           not_displayed |-> 0, rows |-> <<>>]

Page(publish_date, count, rows) ==
  [raised |-> NoError, publish_date |-> publish_date,
   not_displayed |-> count, rows |-> rows]

WaybackDatePool == {PoolDate(i) : i \in 2..(WaybackDates + 1)} \cup {None}

\* A page without a table, one with a row of four cells, one with a row of
\* three cells and one of five and two modules not displayed.
WaybackPagePool == { <<0, <<>> >>, <<0, <<Row4>> >>, <<2, <<Row3, Row5>> >> }

ResponsePool ==
  {Failed}
  \cup {Page(d, p[1], p[2]) : d \in WaybackDatePool, p \in WaybackPagePool}

\* The live scraper before the run.
ScrapeBefore ==
  \E publish_date \in WaybackDatePool :
    /\ Len(save_to_db_modules(modules, publish_date, <<Row5>>)) <= MaxBeforeRows
    /\ scrape_modules_in_process(publish_date, 0, <<Row5>>)

\* scrape_from_wayback up to the loop: existing_dates is read and the list
\* of n snapshots is fetched; without snapshots the function returns.
WaybackStart ==
  /\ pc = "idle"
  /\ result = None
  /\ \E n \in 0..MaxSnapshots :
       /\ pc' = IF n = 0 THEN "returned" ELSE "wayback"
       /\ raw' = <<>>
       /\ result' = [n |-> n,
                     existing_dates |-> get_existing_publish_dates(modules),
                     seen_publish_dates |-> get_existing_publish_dates(modules),
                     new_count |-> 0,
                     saved |-> <<>>]
  /\ UNCHANGED <<store, report, printed, shown, second>>

\* One turn of the loop, on the response of the next snapshot.  A failed
\* fetch, a page without publish date and a publish date already seen
\* continue with the next snapshot; print_changes raising ends the run.
WaybackSnapshot ==
  /\ pc = "wayback"
  /\ Len(raw) < result.n
  /\ \E response \in ResponsePool :
       /\ raw' = Append(raw, response)
       /\ IF response.raised = RequestException
          THEN UNCHANGED <<store, pc, printed, result>>
          ELSE IF response.publish_date = None
          THEN UNCHANGED <<store, pc, printed, result>>
          ELSE IF already_seen(response.publish_date, result.seen_publish_dates)
          THEN UNCHANGED <<store, pc, printed, result>>
          ELSE
            /\ result' =
                 [result EXCEPT
                    !.seen_publish_dates = @ \cup {response.publish_date},
                    !.new_count = @ + 1,
                    !.saved = Append(@, [publish_date |-> response.publish_date,
                                         snapshot |-> Len(raw')])]
            /\ modules' = save_to_db_modules(modules, response.publish_date,
                                             response.rows)
            /\ not_displayed' = save_to_db_not_displayed(not_displayed,
                                   response.publish_date, response.not_displayed)
            /\ printed' = print_changes(modules', response.publish_date)
            /\ pc' = IF printed'.raised = NoError THEN "wayback" ELSE "failed"
  /\ UNCHANGED <<report, shown, second>>

\* print(f"Done. {new_count} new publish date(s) added.")
WaybackDone ==
  /\ pc = "wayback"
  /\ Len(raw) = result.n
  /\ pc' = "done"
  /\ UNCHANGED <<store, report, printed, shown, second, call>>

\* The process ends.
WaybackExit ==
  /\ pc \in {"returned", "done", "failed"}
  /\ pc' = "idle"
  /\ raw' = None
  /\ result' = None
  /\ UNCHANGED <<store, report, printed, shown, second>>

NextWayback ==
  ScrapeBefore \/ WaybackStart \/ WaybackSnapshot \/ WaybackDone \/ WaybackExit

SpecWayback == Init /\ [][NextWayback]_vars

(***************************************************************************)
(* What the properties say about the loaded rows, stated on the rows       *)
(* themselves.                                                             *)
(***************************************************************************)
\* compute_changes and compute_module_stats have returned.
ChangesDone == pc \in {"report", "disappearances", "failed_html"}

\* The positions of the rows of a key on a date, and the keys of a date.
RowsOf(d, k) ==
  {i \in 1..Len(all_rows) : all_rows[i][1] = d /\ KeyOf(all_rows[i]) = k}

KeysAt(d) == {KeyOf(all_rows[i]) : i \in {h \in 1..Len(all_rows) : all_rows[h][1] = d}}

\* The snapshot of a date holds one status per key: that of the key's last
\* row of the date.
StatusAt(d, k) ==
  all_rows[CHOOSE i \in RowsOf(d, k) : \A h \in RowsOf(d, k) : h <= i][5]

KeySet(list) == {list[i][1] : i \in 1..Len(list)}

PrevDate == dates[Len(dates) - 1]

CurrDate == dates[Len(dates)]

InBoth == KeysAt(PrevDate) \cap KeysAt(CurrDate)

Unchanged ==
  {k \in InBoth : normalize_status(StatusAt(CurrDate, k))
                    = normalize_status(StatusAt(PrevDate, k))}

\* C1: for the two snapshots compute_changes compares, the keys of added,
\* removed, changed and unchanged (present in both with equal normalized
\* statuses) are pairwise disjoint, and the four counts add up to the number
\* of distinct keys of the two snapshots.
C1_Partition ==
  (ChangesDone /\ Len(dates) >= 2) =>
    LET A == KeySet(changes.added)
        R == KeySet(changes.removed)
        C == KeySet(changes.changed)
        U == Unchanged
    IN /\ A \cap R = {} /\ A \cap C = {} /\ A \cap U = {}
       /\ R \cap C = {} /\ R \cap U = {} /\ C \cap U = {}
       /\ Len(changes.added) + Len(changes.removed) + Len(changes.changed)
            + Cardinality(U)
          = Cardinality(KeysAt(PrevDate) \cup KeysAt(CurrDate))

\* A comparison with one key added and the other one changed.
C1_Witness ==
  /\ ChangesDone /\ Len(dates) >= 2
  /\ Len(changes.added) = 1
  /\ Len(changes.changed) = 1
  /\ Len(all_rows) = 3

\* C2: a key is in changed exactly when it is in both snapshots and the
\* normalized statuses differ; a key of both snapshots whose statuses differ
\* only in the date annotation is in none of the three lists.
C2_ChangedIffNormalizedDiffers ==
  (ChangesDone /\ Len(dates) >= 2) =>
    /\ KeySet(changes.changed)
         = {k \in InBoth : normalize_status(StatusAt(CurrDate, k))
                             # normalize_status(StatusAt(PrevDate, k))}
    /\ Len(changes.changed) = Cardinality(KeySet(changes.changed))
    /\ \A k \in Unchanged :
         k \notin KeySet(changes.added) \cup KeySet(changes.removed)
                    \cup KeySet(changes.changed)

\* A key whose status differs between the two snapshots only in the date
\* annotation and the spaces before it, and nothing reported as changed.
C2_Witness ==
  /\ ChangesDone /\ Len(dates) >= 2
  /\ \E k \in Unchanged : StatusAt(CurrDate, k) # StatusAt(PrevDate, k)
  /\ changes.changed = <<>>

\* C3: added is exactly the keys of the current snapshot that the previous
\* one lacks, each with its status in the current snapshot; removed is
\* exactly the keys of the previous snapshot that the current one lacks, each
\* with its status in the previous snapshot.
C3_AddedRemoved ==
  (ChangesDone /\ Len(dates) >= 2) =>
    /\ Items(changes.added)
         = {<<k, StatusAt(CurrDate, k)>> : k \in KeysAt(CurrDate) \ KeysAt(PrevDate)}
    /\ Len(changes.added) = Cardinality(KeysAt(CurrDate) \ KeysAt(PrevDate))
    /\ Items(changes.removed)
         = {<<k, StatusAt(PrevDate, k)>> : k \in KeysAt(PrevDate) \ KeysAt(CurrDate)}
    /\ Len(changes.removed) = Cardinality(KeysAt(PrevDate) \ KeysAt(CurrDate))

\* One key added and another removed, their statuses different.
C3_Witness ==
  /\ ChangesDone /\ Len(dates) >= 2
  /\ Len(changes.added) = 1
  /\ Len(changes.removed) = 1
  /\ changes.added[1][2] # changes.removed[1][2]

\* C4: with fewer than two dates compute_changes returns: added, removed and
\* changed are empty, prev_date is None, new_date is the single date or None.
C4_FewerThanTwoDates ==
  (ChangesDone /\ Len(dates) < 2) =>
    /\ changes.added = <<>>
    /\ changes.removed = <<>>
    /\ changes.changed = <<>>
    /\ changes.prev_date = None
    /\ changes.new_date = IF Len(dates) = 1 THEN dates[1] ELSE None

\* A single date with rows of two keys.
C4_Witness ==
  /\ ChangesDone
  /\ Len(dates) = 1
  /\ Cardinality(KeysAt(dates[1])) = 2

\* The rows of a key, its dates, and the date it was last seen.
KeyRows(k) == {i \in 1..Len(all_rows) : KeyOf(all_rows[i]) = k}

AllKeys == {KeyOf(all_rows[i]) : i \in 1..Len(all_rows)}

KeyDates(k) == {all_rows[i][1] : i \in KeyRows(k)}

\* d is not later than e
NotAfter(d, e) == ~DtLess(strptime(e), strptime(d))

LastSeen(k) == CHOOSE d \in KeyDates(k) : \A e \in KeyDates(k) : NotAfter(e, d)

Date1 == <<1, 1, 2024>>
Date2 == <<2, 1, 2024>>
Date3 == <<3, 1, 2024>>

ReviewPending ==
  << "R", "e", "v", "i", "e", "w", " ", "P", "e", "n", "d", "i", "n", "g" >>

Coordination ==
  << "C", "o", "o", "r", "d", "i", "n", "a", "t", "i", "o", "n" >>

\* Scenario A: snapshots 1/1/2024, 2/1/2024 and 3/1/2024, the entity X with
\* "Review Pending (1/1/2024)", "Review Pending (1/1/2024)" and
\* "Coordination (3/1/2024)", and compute_changes has returned.
ScenarioA ==
  /\ ChangesDone
  /\ dates = <<Date1, Date2, Date3>>
  /\ Len(all_rows) = 3
  /\ Items(all_rows)
       = { <<Date1, KeyX[1], KeyX[2], KeyX[3], ReviewPending1>>,
           <<Date2, KeyX[1], KeyX[2], KeyX[3], ReviewPending1>>,
           <<Date3, KeyX[1], KeyX[2], KeyX[3], Coordination3>> }

\* C5 as stated: in Scenario A the diff of 2/1/2024 and 3/1/2024 reports X in
\* changed with old = "Review Pending" and new = "Coordination".
C5_ScenarioA_Normalized ==
  ScenarioA =>
    /\ changes.prev_date = Date2
    /\ changes.new_date = Date3
    /\ changes.changed = << <<KeyX, ReviewPending, Coordination>> >>

\* C5 as amended: in Scenario A the diff of 2/1/2024 and 3/1/2024 reports X
\* in changed with the two statuses as stored, old = "Review Pending
\* (1/1/2024)" and new = "Coordination (3/1/2024)"; their normalized forms
\* are "Review Pending" and "Coordination".
C5_ScenarioA_Raw ==
  ScenarioA =>
    /\ changes.prev_date = Date2
    /\ changes.new_date = Date3
    /\ changes.changed = << <<KeyX, ReviewPending1, Coordination3>> >>
    /\ normalize_status(changes.changed[1][2]) = ReviewPending
    /\ normalize_status(changes.changed[1][3]) = Coordination
    /\ changes.added = <<>>
    /\ changes.removed = <<>>

\* Scenario A with its report made.
C5_Witness == ScenarioA /\ pc = "report"

\* C6: status_since of every key is the date of the earliest entry of the
\* longest suffix of the key's history, in date order, whose normalized
\* status is that of the last entry; a history of one entry gives its date.
RunStart(k) ==
  LET current == normalize_status(StatusAt(LastSeen(k), k))
      suffix == {d \in KeyDates(k) :
                   \A e \in KeyDates(k) :
                     NotAfter(d, e) => normalize_status(StatusAt(e, k)) = current}
  IN CHOOSE d \in suffix : \A e \in suffix : NotAfter(d, e)

C6_StatusSinceIsRunStart ==
  ChangesDone =>
    /\ stats.raised = NoError
    /\ KeySet(stats.status_since) = AllKeys
    /\ Len(stats.status_since) = Cardinality(AllKeys)
    /\ \A i \in 1..Len(stats.status_since) :
         stats.status_since[i][2] = strptime(RunStart(stats.status_since[i][1]))

\* Scenario D: statuses A, B, A, A at four consecutive dates give the third.
C6_Witness ==
  /\ ChangesDone
  /\ Len(dates) = 4
  /\ Len(all_rows) = 4
  /\ AllKeys = {KeyX}
  /\ normalize_status(StatusAt(dates[1], KeyX))
       # normalize_status(StatusAt(dates[2], KeyX))
  /\ normalize_status(StatusAt(dates[3], KeyX))
       = normalize_status(StatusAt(dates[1], KeyX))
  /\ normalize_status(StatusAt(dates[4], KeyX))
       = normalize_status(StatusAt(dates[1], KeyX))
  /\ DictGet(stats.status_since, KeyX) = strptime(dates[3])

\* C7: status_since of every key is the publish date of one of the key's own
\* rows and is not later than the date of the key's last entry.
C7_StatusSinceInHistory ==
  ChangesDone =>
    /\ stats.raised = NoError
    /\ \A i \in 1..Len(stats.status_since) :
         LET k == stats.status_since[i][1]
             since == stats.status_since[i][2]
         IN /\ \E d \in KeyDates(k) : strptime(d) = since
            /\ ~DtLess(strptime(LastSeen(k)), since)

\* Two keys; the run of one of them began before the date it was last seen,
\* which is not the most recent date.
C7_Witness ==
  /\ ChangesDone
  /\ Cardinality(AllKeys) = 2
  /\ \E i \in 1..Len(stats.status_since) :
       /\ DtLess(stats.status_since[i][2],
                 strptime(LastSeen(stats.status_since[i][1])))
       /\ LastSeen(stats.status_since[i][1]) # dates[Len(dates)]

\* The most recent snapshot date overall.
MostRecent ==
  CHOOSE d \in Items(dates) : \A e \in Items(dates) : NotAfter(e, d)

\* The status recorded for a key at the date it was last seen; where several
\* rows of the key carry that date, the first of them.
RecordedStatus(k) ==
  LET at == RowsOf(LastSeen(k), k)
  IN normalize_status(all_rows[CHOOSE i \in at : \A h \in at : i <= h][5])

\* C8: disappearances_html reports a key exactly when its last-seen date is
\* strictly earlier than the most recent snapshot date and the normalized
\* status recorded at its last-seen date is not "Finalization"; it reports
\* that date and that status.
C8_DisappearedIff ==
  (pc = "disappearances") =>
    LET gone == {k \in AllKeys :
                   /\ DtLess(strptime(LastSeen(k)), strptime(MostRecent))
                   /\ RecordedStatus(k) # Finalization}
    IN /\ disappeared.raised = NoError
       /\ Items(disappeared.rows)
            = {<<k, LastSeen(k), RecordedStatus(k)>> : k \in gone}
       /\ Len(disappeared.rows) = Cardinality(gone)
       /\ disappeared.count = Cardinality(gone)

\* Scenario B: a key seen at 1/1/2024 and last at 2/1/2024 with a status that
\* is not terminal, the latest date being 3/1/2024.
C8_Witness ==
  /\ pc = "disappearances"
  /\ dates = <<Date1, Date2, Date3>>
  /\ KeyDates(KeyY) = {Date1, Date2}
  /\ disappeared.rows = << <<KeyY, Date2, ReviewPending>> >>

\* The input with all but the last row of each (date, key) group removed.
LastRows ==
  LET last == {i \in 1..Len(all_rows) :
                 \A j \in (i + 1)..Len(all_rows) :
                   ~(all_rows[j][1] = all_rows[i][1]
                     /\ KeyOf(all_rows[j]) = KeyOf(all_rows[i]))}
      isLast(r) == \E i \in last : all_rows[i] = r
  IN SelectSeq(all_rows, isLast)

DiffLastRowWins == compute_changes(dates, LastRows) = changes

RunLastRowWins ==
  Items(compute_module_stats(LastRows, dates).status_since)
    = Items(stats.status_since)

DisappearedLastRowWins ==
  (pc = "disappearances") =>
    Items(disappearances_html(LastRows, dates).rows) = Items(disappeared.rows)

\* C9: with several rows for one (date, key), the diff, the status run and
\* the last status each equal what they are on the input with all but the
\* last row of each (date, key) group removed.
C9_LastRowWins ==
  ChangesDone => DiffLastRowWins /\ RunLastRowWins /\ DisappearedLastRowWins

\* The dates of a list of entries are strictly ascending.
StrictlyAscending(ds) ==
  \A i \in 1..(Len(ds) - 1) : DtLess(strptime(ds[i]), strptime(ds[i + 1]))

HistoryDates(h) == [i \in 1..Len(h) |-> h[i].date]

RunHistoryDates(h) == [i \in 1..Len(h) |-> EntryDate(h[i])]

\* C10: the history of every requested key from build_module_histories, and
\* the history of every key inside compute_module_stats, is strictly
\* ascending by publish date, no two entries sharing a date.
C10_HistoryStrictlyAscending ==
  ChangesDone =>
    /\ \A i \in 1..Len(histories) :
         StrictlyAscending(HistoryDates(histories[i][2]))
    /\ \A i \in 1..Len(history_of(all_rows)) :
         StrictlyAscending(RunHistoryDates(
           sort_history(history_of(all_rows)[i][2], date_dt(dates))))

\* A row of all_rows whose publish date is not in dates.
Unresolved(i) == all_rows[i][1] \notin Items(dates)

\* The keys of the histories that build_module_histories returned.
HistoryKeys == {histories[i][1] : i \in 1..Len(histories)}

\* C11: a row whose publish date is not in dates makes each component fail:
\* compute_module_stats and disappearances_html raise, and
\* build_module_histories returns no history that holds such a row.
C11_UnresolvedDateFails ==
  (\E i \in 1..Len(all_rows) : Unresolved(i)) =>
    /\ ("compute_module_stats" \in pc) => stats.raised # NoError
    /\ ("disappearances_html" \in pc) => disappeared.raised # NoError
    /\ ("build_module_histories" \in pc) =>
         \A i \in 1..Len(all_rows) :
           Unresolved(i) => key_str(KeyOf(all_rows[i])) \notin HistoryKeys

\* The History entries a modules table holds: (publish_date, key, status).
Entries(table) ==
  {<<table[i][1], KeyOf(table[i]), table[i][5]>> : i \in 1..Len(table)}

\* d is a calendar date later than the calendar date e
Later(d, e) == d # None /\ e # None /\ DtLess(strptime(e), strptime(d))

\* C12 as stated: over the ingest operations every stored History entry
\* stays, and entries are added only for publish dates later than every
\* stored one.
C12_HistoryAppendOnly ==
  [][/\ Entries(modules) \subseteq Entries(modules')
     /\ \A new \in Entries(modules') \ Entries(modules) :
          \A old \in Entries(modules) : Later(new[1], old[1])]_vars

\* C12 as amended: an ingest operation removes History entries of no publish
\* date but the one it saves, a date that is not None; the rows of every
\* other date stay as they are, in their order.
C12_OnlySavedDateReplaced ==
  [][\A e \in Entries(modules) \ Entries(modules') :
       /\ e[1] = printed'.publish_date
       /\ e[1] # None
       /\ LET other(r) == r[1] # e[1]
          IN SelectSeq(modules', other) = SelectSeq(modules, other)]_vars

\* The snapshot of 1/1/2024 was saved after that of 2/1/2024, whose row is
\* still there.
C12_Witness ==
  /\ Len(modules) = 2
  /\ modules[1][1] = PoolDate(3)
  /\ modules[2][1] = PoolDate(2)
  /\ printed.publish_date = PoolDate(2)

\* The rows of a list as a bag.
SeqToBag(seq) ==
  [x \in Items(seq) |-> Cardinality({i \in 1..Len(seq) : seq[i] = x})]

\* The rows of a table that carry the date, and those that do not.
RowsAt(table, d) == LET at(r) == r[1] = d IN SelectSeq(table, at)

RowsNotAt(table, d) == LET other(r) == r[1] # d IN SelectSeq(table, other)

\* The rows of a page with at least 4 cells, as rows of the date.
GivenRows(d, rows) ==
  LET long == {i \in 1..Len(rows) : Len(rows[i]) >= 4}
      isLong(r) == \E i \in long : rows[i] = r
      kept == SelectSeq(rows, isLong)
  IN [i \in 1..Len(kept) |-> <<d>> \o SubSeq(kept[i], 1, 4)]

\* After save_to_db(d, rows, c): the modules table holds for d exactly the
\* given rows of at least 4 cells, not_displayed holds exactly one entry for
\* d, with c, and the rows and entries of the other dates are as before.
SavePost(d, c, rows) ==
  /\ RowsAt(modules', d) = GivenRows(d, rows)
  /\ \A r \in BagToSet(not_displayed') : r[1] = d => r = <<d, c>>
  /\ CopiesIn(<<d, c>>, not_displayed') = 1
  /\ RowsNotAt(modules', d) = RowsNotAt(modules, d)
  /\ \A r \in BagToSet(not_displayed) \cup BagToSet(not_displayed') :
       r[1] # d => CopiesIn(r, not_displayed') = CopiesIn(r, not_displayed)

\* C13: save_to_db(publish_date, rows, not_displayed) replaces the stored
\* snapshot of publish_date and nothing else, for every publish_date the
\* scraper passes.
C13_SaveReplacesSnapshot ==
  [][\A d \in StoreDatePool, c \in StoreNdPool, rows \in StorePagePool :
       scrape_modules_in_process(d, c, rows) => SavePost(d, c, rows)]_vars

\* What save_to_db does do: for a publish_date that is a date it replaces
\* the stored snapshot of that date and nothing else; for the publish_date
\* None of a page without a date it deletes nothing and adds the given rows
\* of at least 4 cells and one more not_displayed entry.
SaveReplacesDatedSnapshot ==
  [][\A d \in StoreDatePool, c \in StoreNdPool, rows \in StorePagePool :
       scrape_modules_in_process(d, c, rows) =>
         IF d # None THEN SavePost(d, c, rows)
         ELSE /\ modules' = modules \o GivenRows(None, rows)
              /\ not_displayed' = not_displayed (+) SetToBag({<<None, c>>})]_vars

\* The dates of the secondary that the primary lacks.
Missing ==
  get_dates(secondary, secondary_nd) \ get_dates(modules, not_displayed)

\* C14: a merge adds to the primary, for every date of the secondary that the
\* primary lacks, the secondary's module rows and not_displayed row of that
\* date, and changes nothing else; after it no date is missing.
C14_MergeCopiesMissing ==
  [][(pc = "idle" /\ pc' \in {"merged", "merge_failed"}) =>
       LET inMissing(r) == r[1] \in Missing
           nd == {r \in BagToSet(secondary_nd) : r[1] \in Missing}
       IN /\ SeqToBag(modules')
               = SeqToBag(modules) (+) SeqToBag(SelectSeq(secondary, inMissing))
          /\ not_displayed' = not_displayed (+) [r \in nd |-> secondary_nd[r]]
          /\ secondary' = secondary
          /\ secondary_nd' = secondary_nd
          /\ get_dates(secondary', secondary_nd')
               \subseteq get_dates(modules', not_displayed')]_vars

\* C15: normalize_status returns, for every string, a string without "("
\* and without leading or trailing whitespace, and applying it again returns
\* the same string.
C15_NormalizeIdempotent ==
  /\ (pc = "normalized") =>
       /\ \A i \in 1..Len(result) : result[i] # "("
       /\ result # <<>> =>
            result[1] \notin Whitespace /\ result[Len(result)] \notin Whitespace
  /\ (pc = "normalized twice") => result = normalize_status(raw)

\* " A (2/13/2024)" was normalized twice.
C15_Witness ==
  /\ pc = "normalized twice"
  /\ raw = <<" ", "A", " ">> \o <<"(", "2", "/", "1", "3", "/", "2", "0", "2", "4", ")">>
  /\ result = <<"A">>

\* The form 1-2 digits "/" 1-2 digits "/" 4 digits at position i of g, with a
\* and b digits in the first two fields.
FormAt(g, i, a, b) ==
  /\ i + a + b + 5 <= Len(g)
  /\ IsDigits(g, i, a)
  /\ g[i + a] = "/"
  /\ IsDigits(g, i + a + 1, b)
  /\ g[i + a + b + 1] = "/"
  /\ IsDigits(g, i + a + b + 2, 4)

\* The first substring of that form in g, None if there is none; each field
\* takes as many digits as it can.
FirstDateIn(g) ==
  LET hits == {i \in 1..Len(g) : \E a \in 1..2, b \in 1..2 : FormAt(g, i, a, b)}
  IN IF hits = {} THEN None
     ELSE LET i == CHOOSE h \in hits : \A x \in hits : h <= x
              a == IF \E b \in 1..2 : FormAt(g, i, 2, b) THEN 2 ELSE 1
              b == IF FormAt(g, i, a, 2) THEN 2 ELSE 1
          IN SubSeq(g, i, i + a + b + 5)

\* The embedded date as the claim defines it: the first such substring inside
\* the first parenthesized group, None without group or substring.
EmbeddedDate(s) ==
  LET opens == {i \in 1..Len(s) : s[i] = "("}
  IN IF opens = {} THEN None
     ELSE LET o == CHOOSE i \in opens : \A x \in opens : i <= x
              closes == {j \in (o + 1)..Len(s) : s[j] = ")"}
          IN IF closes = {} THEN None
             ELSE LET c == CHOOSE j \in closes : \A x \in closes : j <= x
                  IN FirstDateIn(SubSeq(s, o + 1, c - 1))

\* C17 as stated: the status_date that build_module_histories stores for an
\* entry is the first substring of the form D{1,2}/D{1,2}/D{4} inside the
\* first parenthesized group of the raw status, None if there is none.
C17_StatusDateIsEmbeddedDate ==
  (pc = "status_date") => result = EmbeddedDate(raw)

\* The text between "(" at o and ")" at c is a date of that form and nothing
\* else.
DateGroup(s, o, c) ==
  /\ s[o] = "("
  /\ s[c] = ")"
  /\ \E a \in 1..2, b \in 1..2 :
       c - o - 1 = a + b + 6 /\ FormAt(SubSeq(s, o + 1, c - 1), 1, a, b)

\* The content of the first parenthesized group that is such a date and
\* nothing else, None if there is none.
FirstDateGroup(s) ==
  LET groups == {p \in (1..Len(s)) \X (1..Len(s)) :
                   p[1] < p[2] /\ DateGroup(s, p[1], p[2])}
  IN IF groups = {} THEN None
     ELSE LET p == CHOOSE g \in groups : \A h \in groups : g[1] <= h[1]
          IN SubSeq(s, p[1] + 1, p[2] - 1)

\* C17 as amended: the status_date that build_module_histories stores for an
\* entry is the content of the first parenthesized group of the raw status
\* that consists of 1-2 digits "/" 1-2 digits "/" 4 digits and nothing else,
\* None if no group does.
C17_StatusDateIsFirstDateGroup ==
  (pc = "status_date") => result = FirstDateGroup(raw)

\* "()(2/13/2024)": the date is in the second group.
C17_Witness ==
  /\ pc = "status_date"
  /\ raw = <<"(", ")", "(", "2", "/", "1", "3", "/", "2", "0", "2", "4", ")">>
  /\ result = <<"2", "/", "1", "3", "/", "2", "0", "2", "4">>

(***************************************************************************)
(* C16: the runs of showHistory against the history they were made of      *)
(***************************************************************************)
\* The history that the shown runs were made of.
ShownHistory == DictGet(histories, shown.key)

\* Re-expanding runs: a date has the status of the first run that has not
\* ended before it, and none when every run has ended before it.
Expand(runs, d) ==
  LET covering == {i \in 1..Len(runs) : ~DtLess(strptime(runs[i].end), strptime(d))}
  IN IF covering = {} THEN None
     ELSE runs[CHOOSE i \in covering : \A j \in covering : i <= j].status

Reproduced(h, runs, i) == Expand(runs, h[i].date) = h[i].status

\* The status of entry i comes again after an entry of another status.
Recurs(h, i) ==
  \E j, m \in 1..Len(h) :
    i < j /\ j < m /\ h[j].status # h[i].status /\ h[m].status = h[i].status

\* C16 (as stated): for every history, the runs showHistory shows of it,
\* re-expanded to one entry per date of the history, give every date the
\* normalized status the history has on it.
C16_RoundTrip ==
  shown # None =>
    \A i \in 1..Len(ShownHistory) : Reproduced(ShownHistory, shown.runs, i)

\* C16 (amended): of a history with one entry per date, the re-expanded runs
\* of showHistory give every date its status exactly when no status of the
\* history comes again after another status; in every such history they
\* give its status to every entry whose status does not come again.
C16_RoundTripWithoutRecurrence ==
  (shown # None /\ StrictlyAscending(HistoryDates(ShownHistory))) =>
    /\ (\A i \in 1..Len(ShownHistory) :
          Reproduced(ShownHistory, shown.runs, i))
       <=> (\A i \in 1..Len(ShownHistory) : ~Recurs(ShownHistory, i))
    /\ \A i \in 1..Len(ShownHistory) :
         ~Recurs(ShownHistory, i) => Reproduced(ShownHistory, shown.runs, i)

\* Witness of C16: a history of three dates and two runs, no status coming
\* again, is shown.
C16_Witness ==
  /\ shown # None
  /\ Len(ShownHistory) = 3
  /\ Len(shown.runs) = 2
  /\ \A i \in 1..3 : ~Recurs(ShownHistory, i)
  /\ StrictlyAscending(HistoryDates(ShownHistory))

(***************************************************************************)
(* C19: status_since and the snapshots without the key                     *)
(***************************************************************************)
\* The loaded rows and dates without the snapshot of date d.
RowsWithout(d) == LET other(r) == r[1] # d IN SelectSeq(all_rows, other)

DatesWithout(d) == LET other(x) == x # d IN SelectSeq(dates, other)

StatsWithout(d) == compute_module_stats(RowsWithout(d), DatesWithout(d))

\* C19: every key of the rows has a status_since, also a key absent from the
\* latest snapshot; taking away a snapshot that does not contain a key leaves
\* the key's status_since as it is; a key with one normalized status at the
\* first and the third of three dates and absent at the second has the
\* first date as its status_since.
C19_StatusSinceFrame ==
  ChangesDone =>
    /\ stats.raised = NoError
    /\ \A k \in AllKeys : DictHas(stats.status_since, k)
    /\ \A k \in AllKeys : \A d \in Items(dates) :
         k \notin KeysAt(d) =>
           /\ StatsWithout(d).raised = NoError
           /\ DictHas(StatsWithout(d).status_since, k)
           /\ DictGet(StatsWithout(d).status_since, k)
                = DictGet(stats.status_since, k)
    /\ \A k \in AllKeys :
         (/\ Len(dates) = 3
          /\ KeyDates(k) = {dates[1], dates[3]}
          /\ normalize_status(StatusAt(dates[1], k))
               = normalize_status(StatusAt(dates[3], k)))
         => DictGet(stats.status_since, k) = strptime(dates[1])

\* Witness of C19: X at the first and the third date with one normalized
\* status, only Y at the second date, and the report made.
C19_Witness ==
  /\ ChangesDone
  /\ Len(dates) = 3
  /\ KeyDates(KeyX) = {dates[1], dates[3]}
  /\ KeysAt(dates[2]) = {KeyY}
  /\ normalize_status(StatusAt(dates[1], KeyX))
       = normalize_status(StatusAt(dates[3], KeyX))
  /\ DictGet(stats.status_since, KeyX) = strptime(dates[1])
  /\ DictGet(StatsWithout(dates[2]).status_since, KeyX) = strptime(dates[1])

(***************************************************************************)
(* C20: print_changes of the scraper against compute_changes of the report *)
(***************************************************************************)
\* The last scrape saved the most recent date of the table, and the report
\* was made of that table.
PrintedLatest ==
  /\ ChangesDone
  /\ printed # None
  /\ all_rows = modules
  /\ dates # <<>>
  /\ printed.publish_date = CurrDate

\* C20: on one modules table and its most recent publish date, print_changes
\* and compute_changes compare with the same preceding date, and the keys
\* printed as ADDED, REMOVED and STATUS are the keys of added, removed and
\* changed; with a single date neither of them compares.
C20_PrintChangesAgrees ==
  PrintedLatest =>
    /\ printed.raised = NoError
    /\ printed.compared <=> Len(dates) >= 2
    /\ printed.prev_date = changes.prev_date
    /\ Items(printed.added) = KeySet(changes.added)
    /\ Items(printed.removed) = KeySet(changes.removed)
    /\ Items(printed.changed) = KeySet(changes.changed)

\* Witness of C20: three dates, the second one saved before the first; both
\* have compared the latest date with the second and report a key whose
\* status changed.
C20_Witness ==
  /\ PrintedLatest
  /\ Len(dates) = 3
  /\ modules[1][1] = dates[2]
  /\ modules[2][1] = dates[1]
  /\ printed.compared
  /\ printed.prev_date = dates[2]
  /\ printed.changed # <<>>
  /\ changes.changed # <<>>

(***************************************************************************)
(* C21: the save_to_db calls of one run of scrape_from_wayback             *)
(***************************************************************************)
\* The response of snapshot j was fetched and its page carries the date d.
Carries(j, d) == raw[j].raised = NoError /\ raw[j].publish_date = d

\* The publish dates the snapshots fetched so far carry that had no module
\* rows when the run started.
NewDates ==
  {raw[j].publish_date : j \in {h \in 1..Len(raw) : raw[h].raised = NoError}}
    \ (result.existing_dates \cup {None})

FirstCarrying(d) ==
  CHOOSE j \in 1..Len(raw) :
    Carries(j, d) /\ \A h \in 1..(j - 1) : ~Carries(h, d)

\* The two tables hold for the date d what the page of snapshot j gave.
StoredFrom(d, j) ==
  /\ RowsAt(modules, d) = inserted_rows(d, raw[j].rows)
  /\ {r \in BagToSet(not_displayed) : r[1] = d} = {<<d, raw[j].not_displayed>>}
  /\ CopiesIn(<<d, raw[j].not_displayed>>, not_displayed) = 1

SavedOnceFromFirst ==
  result # None =>
    /\ \A i, j \in 1..Len(result.saved) :
         result.saved[i].publish_date = result.saved[j].publish_date => i = j
    /\ \A i \in 1..Len(result.saved) :
         result.saved[i].publish_date \notin result.existing_dates
    /\ {result.saved[i].publish_date : i \in 1..Len(result.saved)} = NewDates
    /\ \A i \in 1..Len(result.saved) :
         /\ result.saved[i].snapshot = FirstCarrying(result.saved[i].publish_date)
         /\ StoredFrom(result.saved[i].publish_date, result.saved[i].snapshot)
    /\ pc = "done" =>
         /\ result.new_count = Len(result.saved)
         /\ result.new_count = Cardinality(NewDates)

\* The snapshot fetched in this step failed to fetch, has no publish date,
\* or has one that was in the database at the start or on an earlier
\* snapshot of the run.
SkippedStep ==
  /\ pc = "wayback"
  /\ raw' # raw
  /\ LET response == raw'[Len(raw')]
     IN \/ response.raised # NoError
        \/ response.publish_date = None
        \/ response.publish_date \in result.existing_dates
        \/ \E j \in 1..Len(raw) : Carries(j, response.publish_date)

\* C21: in one run of scrape_from_wayback save_to_db is called at most once
\* per publish date and never for a date with module rows at the start; the
\* tables hold for every new date what the first snapshot carrying it gave;
\* a snapshot that fails to fetch, has no publish date or has a date seen
\* before changes nothing; the final count is the number of save_to_db
\* calls and of new publish dates.
C21_SavedOnceFromFirstSnapshot ==
  /\ []SavedOnceFromFirst
  /\ [][SkippedStep =>
          /\ modules' = modules
          /\ not_displayed' = not_displayed
          /\ result' = result]_vars

\* Witness of C21: a finished run of three snapshots; the first gave a new
\* date, the second the same date with other rows, the third a date that
\* had rows at the start; one save_to_db call, the count is 1.
C21_Witness ==
  /\ pc = "done"
  /\ Len(raw) = 3
  /\ Len(result.saved) = 1
  /\ result.saved[1].snapshot = 1
  /\ Carries(2, raw[1].publish_date)
  /\ raw[2].rows # raw[1].rows
  /\ raw[3].raised = NoError
  /\ raw[3].publish_date # None
  /\ raw[3].publish_date \in result.existing_dates
  /\ result.new_count = 1
  /\ StoredFrom(raw[1].publish_date, 1)

====
